---- MODULE Spec2Model ----
(***************************************************************************)
(* Model of advancedDirsearch_v3.py: the per-target scan pipeline, the     *)
(* concurrent screenshot batch and the multi-target driver.                *)
(*                                                                         *)
(* Strings are sequences of one-character strings, so that sanitising,     *)
(* suffixing and comparing names are computed, not assumed.                *)
(*                                                                         *)
(* Three specifications share the module:                                    *)
(*   SpecBatch  one call of process_all_screenshots, one step per await    *)
(*              point of every capture task;                               *)
(*   Spec       main(): the targets one after the other, with              *)
(*              process_all_screenshots taken as one step;                 *)
(*   SpecFn     one call of a function without side effects                *)
(*              (sanitize_path_for_filename, sort_results of v2).          *)
(***************************************************************************)
EXTENDS Integers, Sequences, FiniteSets, TLC

(***************************************************************************)
(* Characters and strings                                                  *)
(***************************************************************************)

\* The printable characters the model uses, in ASCII order.
Ascii ==
    << "-", ".", "/", "0", "1", "2", "3", "4", "5", "6", "7", "8", "9", ":", "?",
       "A", "B", "C", "D", "E", "F", "G", "H", "I", "J", "K", "L", "M",
       "N", "O", "P", "Q", "R", "S", "T", "U", "V", "W", "X", "Y", "Z", "_",
       "a", "b", "c", "d", "e", "f", "g", "h", "i", "j", "k", "l", "m",
       "n", "o", "p", "q", "r", "s", "t", "u", "v", "w", "x", "y", "z" >>

Ord(c) == CHOOSE i \in 1..Len(Ascii) : Ascii[i] = c

UpperCase == SubSeq(Ascii, 16, 41)
LowerCase == SubSeq(Ascii, 43, 68)
DigitChars == SubSeq(Ascii, 4, 13)

Range(s) == { s[i] : i \in 1..Len(s) }

\* str.lower() on one character
Lower(c) ==
    IF c \in Range(UpperCase)
    THEN LowerCase[CHOOSE i \in 1..26 : UpperCase[i] = c]
    ELSE c

LowerStr(s) == [i \in 1..Len(s) |-> Lower(s[i])]

\* Python's comparison of two str values: s < t
RECURSIVE StrLess(_, _)
StrLess(s, t) ==
    IF t = <<>> THEN FALSE
    ELSE IF s = <<>> THEN TRUE
    ELSE IF s[1] # t[1] THEN Ord(s[1]) < Ord(t[1])
    ELSE StrLess(Tail(s), Tail(t))

StartsWith(s, p) == Len(s) >= Len(p) /\ SubSeq(s, 1, Len(p)) = p

EndsWith(s, p) == Len(s) >= Len(p) /\ SubSeq(s, Len(s) - Len(p) + 1, Len(s)) = p

\* index of the first occurrence of substring p in s at or after position from, 0 if none
FindFrom(s, p, from) ==
    LET hits == { i \in from..(Len(s) - Len(p) + 1) : SubSeq(s, i, i + Len(p) - 1) = p }
    IN  IF hits = {} THEN 0 ELSE CHOOSE i \in hits : \A j \in hits : i <= j

\* str(n) for n >= 0
RECURSIVE Str(_)
Str(n) ==
    IF n < 10 THEN << DigitChars[n + 1] >>
    ELSE Str(n \div 10) \o << DigitChars[(n % 10) + 1] >>

\* s.strip('/')
RECURSIVE LStripSlash(_)
LStripSlash(s) ==
    IF s # <<>> /\ s[1] = "/" THEN LStripSlash(Tail(s)) ELSE s

RECURSIVE RStripSlash(_)
RStripSlash(s) ==
    IF s # <<>> /\ s[Len(s)] = "/" THEN RStripSlash(SubSeq(s, 1, Len(s) - 1)) ELSE s

StripSlash(s) == RStripSlash(LStripSlash(s))

\* s.split('?')[0]
BeforeQuery(s) ==
    LET q == FindFrom(s, << "?" >>, 1)
    IN  IF q = 0 THEN s ELSE SubSeq(s, 1, q - 1)

\* s.replace('/', '_')
SlashToUnderscore(s) == [i \in 1..Len(s) |-> IF s[i] = "/" THEN "_" ELSE s[i]]

\* the alternatives of the extension pattern, each with its leading dot
PageExtensions ==
    { << ".", "p", "h", "p" >>, << ".", "h", "t", "m", "l" >>, << ".", "h", "t", "m" >>,
      << ".", "a", "s", "p" >>, << ".", "a", "s", "p", "x" >>, << ".", "j", "s", "p" >>,
      << ".", "t", "x", "t" >> }

\* re.sub(r'\.(php|html|htm|asp|aspx|jsp|txt)$', '', s, flags=re.IGNORECASE)
StripExtension(s) ==
    LET found == { e \in PageExtensions : EndsWith(LowerStr(s), e) }
    IN  IF found = {} THEN s
        ELSE LET e == CHOOSE x \in found : TRUE
             IN  SubSeq(s, 1, Len(s) - Len(e))

\* a character class that also lets the dot through
FilenameCharsWithDot ==
    Range(UpperCase) \cup Range(LowerCase) \cup Range(DigitChars) \cup { "_", "-", "." }

\* [a-zA-Z0-9_-]
FilenameChars == Range(UpperCase) \cup Range(LowerCase) \cup Range(DigitChars) \cup { "_", "-" }

\* re.sub(r'[^a-zA-Z0-9_-]', '', s)
KeepFilenameChars(s) == SelectSeq(s, LAMBDA c : c \in FilenameChars)

IndexName == << "i", "n", "d", "e", "x" >>
PageName == << "p", "a", "g", "e" >>

\* each assignment of the function works on the value of the one before it
sanitize_path_for_filename(path_str) ==
    IF path_str = <<>> \/ path_str = << "/" >> THEN IndexName
    ELSE LET Named(sanitized) == IF sanitized # <<>> THEN sanitized ELSE PageName
         IN  CHOOSE name \in
                 { Named(KeepFilenameChars(stripped)) :
                     stripped \in { StripExtension(replaced) :
                         replaced \in { SlashToUnderscore(clean_path) :
                             clean_path \in { StripSlash(BeforeQuery(path_str)) } } } } : TRUE

(***************************************************************************)
(* URLs                                                                    *)
(***************************************************************************)

SchemeSep == << ":", "/", "/" >>
Http == << "h", "t", "t", "p" >> \o SchemeSep
Https == << "h", "t", "t", "p", "s" >> \o SchemeSep

\* urlparse(url): the scheme, the authority and the path of an absolute URL
\* (the model's URLs carry no fragment and no params)
UrlParse(url) ==
    LET s == FindFrom(url, SchemeSep, 1)
        rest == IF s = 0 THEN url ELSE SubSeq(url, s + 3, Len(url))
        slash == FindFrom(rest, << "/" >>, 1)
        qm == FindFrom(rest, << "?" >>, 1)
        cut == IF slash = 0 /\ qm = 0 THEN Len(rest) + 1
               ELSE IF slash = 0 THEN qm
               ELSE IF qm = 0 THEN slash
               ELSE IF slash < qm THEN slash ELSE qm
        tail == SubSeq(rest, cut, Len(rest))
    IN  [ scheme |-> IF s = 0 THEN <<>> ELSE SubSeq(url, 1, s - 1),
          netloc |-> IF s = 0 THEN <<>> ELSE SubSeq(rest, 1, cut - 1),
          path |-> IF s = 0 THEN BeforeQuery(url) ELSE BeforeQuery(tail) ]

get_base_url(url) == UrlParse(url).scheme \o SchemeSep \o UrlParse(url).netloc

\* re.sub(r'[:.]', '_', urlparse(url).netloc)
sanitize_url_for_foldername(url) ==
    LET n == UrlParse(url).netloc
    IN  [i \in 1..Len(n) |-> IF n[i] \in { ":", "." } THEN "_" ELSE n[i]]

(***************************************************************************)
(* State                                                                   *)
(***************************************************************************)

VARIABLES
    \* ---- one call of process_all_screenshots ----
    results_200,      \* the call's first argument: the status-200 records, in report order
    base_target_url,  \* the call's second argument
    files0,           \* scan_screenshot_dir as the call found it: file name -> size
    files,            \* scan_screenshot_dir now: file name -> size (0 = empty file)
    limit,            \* the value the semaphore was created with
    semaphore,        \* [value, waiters]: the asyncio.Semaphore
    browser,          \* "none", "open" or "closed": the chromium session
    tasks,            \* the coroutines handed to gather: [url, path]
    tpc,              \* where each task stands
    tres,             \* "none", "ok" or "failed": how each task's try block ended
    bpc,              \* where process_all_screenshots stands
    returned,         \* the path process_all_screenshots returned, <<>> before
    context           \* the browsing contexts open in the browser: [task, urls]

VARIABLES
    \* ---- main() ----
    input,            \* the command line and what the operator types at start-up
    mpc,              \* where main() stands
    exit_code,        \* the process's exit code, -1 while it runs
    targets,          \* normalized_targets
    is_list_scan,
    loop_i,           \* i of the for loop of main(): index of the target it is at
    rpc,              \* where run_scan_for_target stands for that target
    scan,             \* the locals of run_scan_for_target (and of the resume loop)
    scan_results,
    deferred_scans,
    shots,            \* per output folder: what its screenshots directory holds
    galleries,        \* the gallery files written
    master_index,     \* output/index.html: whether written, and its cards
    log,              \* the run so far: targets entered and left, batches, confirmation
    trail,            \* the steps of the target entered last, in order, until the loop ends
    readers           \* how many reader threads of timed-out prompts still wait for a line

VARIABLES
    \* ---- one call of a function without side effects ----
    fn_call,          \* the function called and its arguments
    fn_result         \* [done, value]: whether it returned, and what

ovars == << input, mpc, exit_code, targets, is_list_scan, loop_i, rpc, scan, scan_results,
            deferred_scans, shots, galleries, master_index, log, trail, readers >>

bvars == << results_200, base_target_url, files0, files, limit, semaphore, browser,
            tasks, tpc, tres, bpc, returned, context >>

fvars == << fn_call, fn_result >>

vars == << bvars, ovars, fvars >>

(***************************************************************************)
(* Bounds and constants                                                    *)
(***************************************************************************)

\* most records in the results_200 of a modelled batch
MaxUrls == 2

\* the semaphore sizes tried besides the program's own are 1..MaxLimit
MaxLimit == 2

MAX_CONCURRENT_SCREENSHOTS == 10

(***************************************************************************)
(* The screenshot directory                                                *)
(***************************************************************************)

PngSuffix == << ".", "p", "n", "g" >>
BaseName == << "b", "a", "s", "e" >>
FooName == << "f", "o", "o" >>

NoFiles == << >>

\* Path.exists()
Exists(fs, name) == name \in DOMAIN fs

\* Path.touch(): creates an empty file, leaves an existing file's content alone
Touch(fs, name) == IF Exists(fs, name) THEN fs ELSE (name :> 0) @@ fs

\* page.screenshot(path=...): writes the image, replacing what the file held
WriteImage(fs, name) == (name :> 1) @@ fs

\* scan_screenshot_dir / f"{base_name}.png" and f"{base_name}_{counter}.png"
PngName(base_name, counter) ==
    IF counter = 0 THEN base_name \o PngSuffix
    ELSE base_name \o << "_" >> \o Str(counter) \o PngSuffix

\* the while loop of process_all_screenshots: the first counter whose name is not
\* a file of the directory
RECURSIVE FreeCounter(_, _, _)
FreeCounter(fs, base_name, counter) ==
    IF Exists(fs, PngName(base_name, counter))
    THEN FreeCounter(fs, base_name, counter + 1)
    ELSE counter

\* the body of the for loop: the task of one record, claimed against the directory
\* as it is while the loop runs (no coroutine has started yet)
TaskFor(fs, rec) ==
    LET base_name == CHOOSE name \in { sanitize_path_for_filename(path) :
                                         path \in { UrlParse(rec.url).path } } : TRUE
    IN  [ url |-> rec.url, path |-> PngName(base_name, FreeCounter(fs, base_name, 0)) ]

base_path == BaseName \o PngSuffix

\* the list handed to asyncio.gather
BuildTasks(fs, base_url, recs) ==
    << [ url |-> get_base_url(base_url), path |-> base_path ] >>
        \o [ i \in 1..Len(recs) |-> TaskFor(fs, recs[i]) ]

(***************************************************************************)
(* process_all_screenshots and capture_screenshot_task, step by step       *)
(***************************************************************************)

TaskIds == 1..Len(tasks)

\* the positions at which a task holds a slot of the semaphore
GatePcs == { "acquired", "ctx", "page", "nav", "finally" }

\* the positions at which a task's browsing context is open
ContextPcs == { "ctx", "page", "nav", "finally" }

InGate == { t \in TaskIds : tpc[t] \in GatePcs }

\* a semaphore that reports itself locked only below zero
LockedBelowZero(sem) == sem.value < 0

\* Semaphore.locked()
Locked(sem) == sem.value = 0 \/ sem.waiters # <<>>

\* Semaphore.acquire() of task t: the slot at once when the semaphore is not
\* locked, else the task queues behind the waiters
Acquire(sem, t) ==
    IF ~Locked(sem)
    THEN [ sem |-> [ sem EXCEPT !.value = @ - 1 ], pc |-> "acquired" ]
    ELSE [ sem |-> [ sem EXCEPT !.waiters = Append(@, t) ], pc |-> "waiting" ]

\* Semaphore.release(): the counter goes up, and _wake_up_next hands the slot
\* to the first waiter, taking the counter down again
Release(sem) ==
    IF sem.waiters = <<>>
    THEN [ sem |-> [ sem EXCEPT !.value = @ + 1 ], woken |-> 0 ]
    ELSE [ sem |-> [ sem EXCEPT !.waiters = Tail(@) ], woken |-> Head(sem.waiters) ]

\* tpc after task t left the semaphore: t is done, the woken waiter holds the slot
AfterRelease(t, woken) ==
    [ u \in TaskIds |-> IF u = t THEN "done" ELSE IF u = woken THEN "acquired" ELSE tpc[u] ]

\* the context browser.new_context returns to task t: open, no page yet
NewContext(t) == [ task |-> t, urls |-> {} ]

\* the open contexts of task t
ContextsOf(t) == { c \in context : c.task = t }

\* page.goto(url) in the task's context: the await at position "page"
Visit(t, at) ==
    IF at = "page"
    THEN (context \ ContextsOf(t))
             \cup { [ c EXCEPT !.urls = @ \cup { tasks[t].url } ] : c \in ContextsOf(t) }
    ELSE context

\* a finally block that closes the context only after a capture that succeeded
ClosedOnSuccessOnly(t) == IF tres[t] = "ok" THEN context \ ContextsOf(t) ELSE context

\* finally: if context: await context.close()
Closed(t) == context \ ContextsOf(t)

\* the except block: report, then path.touch()
OnException(fs, path) == Touch(fs, path)

\* async_playwright() and p.chromium.launch()
Launch ==
    /\ bpc = "call"
    /\ browser' = "open"
    /\ bpc' = "launched"
    /\ UNCHANGED << results_200, base_target_url, files0, files, limit, semaphore,
                    tasks, tpc, tres, returned, context >>

\* the base task, the for loop over results_200, and the call of gather
Schedule ==
    /\ bpc = "launched"
    /\ tasks' = BuildTasks(files, base_target_url, results_200)
    /\ tpc' = [ t \in 1..(Len(results_200) + 1) |-> "pending" ]
    /\ tres' = [ t \in 1..(Len(results_200) + 1) |-> "none" ]
    /\ bpc' = "gather"
    /\ UNCHANGED << results_200, base_target_url, files0, files, limit, semaphore,
                    browser, returned, context >>

\* gather starts the tasks in list order; each runs to its first suspension:
\* async with semaphore, then the call of browser.new_context
Start(t) ==
    /\ bpc = "gather"
    /\ tpc[t] = "pending"
    /\ \A u \in 1..(t - 1) : tpc[u] # "pending"
    /\ LET a == Acquire(semaphore, t)
       IN  /\ semaphore' = a.sem
           /\ tpc' = [ tpc EXCEPT ![t] = a.pc ]
    /\ UNCHANGED << results_200, base_target_url, files0, files, limit, browser,
                    tasks, tres, bpc, returned, context >>

\* no completion is delivered before every task had its first run
Running(t, at) ==
    /\ bpc = "gather"
    /\ \A u \in TaskIds : tpc[u] # "pending"
    /\ tpc[t] = at

\* browser.new_context returns a context
NewContextOk(t) ==
    /\ Running(t, "acquired")
    /\ tpc' = [ tpc EXCEPT ![t] = "ctx" ]
    /\ context' = context \cup { NewContext(t) }
    /\ UNCHANGED << results_200, base_target_url, files0, files, limit, semaphore,
                    browser, tasks, tres, bpc, returned >>

\* a task that ends without leaving the semaphore when new_context raises
NewContextFailsKeepsSlot(t) ==
    /\ Running(t, "acquired")
    /\ files' = OnException(files, tasks[t].path)
    /\ tres' = [ tres EXCEPT ![t] = "failed" ]
    /\ tpc' = [ tpc EXCEPT ![t] = "done" ]
    /\ UNCHANGED << results_200, base_target_url, files0, limit, semaphore, browser,
                    tasks, bpc, returned, context >>

\* browser.new_context raises: context stays None, so finally closes nothing and
\* the task leaves the semaphore in the same run
NewContextFails(t) ==
    /\ Running(t, "acquired")
    /\ files' = OnException(files, tasks[t].path)
    /\ tres' = [ tres EXCEPT ![t] = "failed" ]
    /\ LET r == Release(semaphore)
       IN  /\ semaphore' = r.sem
           /\ tpc' = AfterRelease(t, r.woken)
    /\ UNCHANGED << results_200, base_target_url, files0, limit, browser, tasks,
                    bpc, returned, context >>

\* an await of the try block returns: on to the next one
StepOk(t, at, to) ==
    /\ Running(t, at)
    /\ tpc' = [ tpc EXCEPT ![t] = to ]
    /\ context' = Visit(t, at)
    /\ UNCHANGED << results_200, base_target_url, files0, files, limit, semaphore,
                    browser, tasks, tres, bpc, returned >>

\* an await of the try block raises: the except block runs, then finally awaits
\* context.close()
StepFails(t, at) ==
    /\ Running(t, at)
    /\ files' = OnException(files, tasks[t].path)
    /\ tres' = [ tres EXCEPT ![t] = "failed" ]
    /\ tpc' = [ tpc EXCEPT ![t] = "finally" ]
    /\ context' = Visit(t, at)
    /\ UNCHANGED << results_200, base_target_url, files0, limit, semaphore, browser,
                    tasks, bpc, returned >>

NewPageOk(t) == StepOk(t, "ctx", "page")
NewPageFails(t) == StepFails(t, "ctx")
GotoOk(t) == StepOk(t, "page", "nav")
GotoFails(t) == StepFails(t, "page")

\* page.screenshot returns: the image is in the file; finally awaits context.close()
ScreenshotOk(t) ==
    /\ Running(t, "nav")
    /\ files' = WriteImage(files, tasks[t].path)
    /\ tres' = [ tres EXCEPT ![t] = "ok" ]
    /\ tpc' = [ tpc EXCEPT ![t] = "finally" ]
    /\ UNCHANGED << results_200, base_target_url, files0, limit, semaphore, browser,
                    tasks, bpc, returned, context >>

ScreenshotFails(t) == StepFails(t, "nav")

\* context.close() returns; the task leaves async with, releasing the semaphore
CloseContext(t) ==
    /\ Running(t, "finally")
    /\ context' = Closed(t)
    /\ LET r == Release(semaphore)
       IN  /\ semaphore' = r.sem
           /\ tpc' = AfterRelease(t, r.woken)
    /\ UNCHANGED << results_200, base_target_url, files0, files, limit, browser,
                    tasks, tres, bpc, returned >>

\* a gather that returns as soon as one task is done
JoinAtFirstDone ==
    /\ bpc = "gather"
    /\ \E t \in TaskIds : tpc[t] = "done"
    /\ bpc' = "closing"
    /\ UNCHANGED << results_200, base_target_url, files0, files, limit, semaphore,
                    browser, tasks, tpc, tres, returned, context >>

\* gather returns once every task is done; browser.close() is awaited
Join ==
    /\ bpc = "gather"
    /\ \A t \in TaskIds : tpc[t] = "done"
    /\ bpc' = "closing"
    /\ UNCHANGED << results_200, base_target_url, files0, files, limit, semaphore,
                    browser, tasks, tpc, tres, returned, context >>

\* browser.close() returns, the playwright context manager exits, return base_path
CloseBrowser ==
    /\ bpc = "closing"
    /\ browser' = "closed"
    /\ returned' = base_path
    /\ bpc' = "returned"
    /\ UNCHANGED << results_200, base_target_url, files0, files, limit, semaphore,
                    tasks, tpc, tres, context >>

(***************************************************************************)
(* SpecBatch: one call of process_all_screenshots                          *)
(***************************************************************************)

\* all sequences over S of length at most n
SeqsUpTo(S, n) == UNION { [ 1..k -> S ] : k \in 0..n }

BatchTarget == Https \o << "a" >>

\* URLs a report of BatchTarget can list with status 200
BatchUrls ==
    { BatchTarget \o << "/" >> \o FooName \o << ".", "p", "h", "p" >>,
      BatchTarget \o << "/" >> \o FooName,
      BatchTarget \o << "/" >> \o BaseName }

\* what the screenshots directory may hold when the call starts: nothing, or
\* images an earlier run of the same target left there
EarlierDirs ==
    { NoFiles, base_path :> 1, PngName(FooName, 0) :> 1 }

Limits == (1..MaxLimit) \cup { MAX_CONCURRENT_SCREENSHOTS }

NotWritten == [ written |-> FALSE, cards |-> <<>> ]

\* a call that has not returned, and one that returned v
Pending == [ done |-> FALSE, value |-> <<>> ]

Returned(v) == [ done |-> TRUE, value |-> v ]

\* no function call is under way
FnIdle ==
    /\ fn_call = [ fn |-> "none" ]
    /\ fn_result = Pending

\* main() is not running
MainIdle ==
    /\ input = [ method |-> "none" ]
    /\ mpc = "idle"
    /\ exit_code = -1
    /\ targets = <<>>
    /\ is_list_scan = FALSE
    /\ loop_i = 0
    /\ rpc = "none"
    /\ scan = [ target_url |-> <<>> ]
    /\ scan_results = <<>>
    /\ deferred_scans = <<>>
    /\ shots = <<>>
    /\ galleries = {}
    /\ master_index = NotWritten
    /\ log = <<>>
    /\ trail = <<>>
    /\ readers = 0

InitBatch ==
    /\ results_200 \in SeqsUpTo({ [ status |-> 200, url |-> u ] : u \in BatchUrls }, MaxUrls)
    /\ base_target_url = BatchTarget
    /\ files0 \in EarlierDirs
    /\ files = files0
    /\ limit \in Limits
    /\ semaphore = [ value |-> limit, waiters |-> <<>> ]
    /\ browser = "none"
    /\ tasks = <<>>
    /\ tpc = <<>>
    /\ tres = <<>>
    /\ bpc = "call"
    /\ returned = <<>>
    /\ context = {}
    /\ MainIdle
    /\ FnIdle

NextBatch ==
    \/ Launch /\ UNCHANGED << ovars, fvars >>
    \/ Schedule /\ UNCHANGED << ovars, fvars >>
    \/ \E t \in TaskIds : Start(t) /\ UNCHANGED << ovars, fvars >>
    \/ \E t \in TaskIds : NewContextOk(t) /\ UNCHANGED << ovars, fvars >>
    \/ \E t \in TaskIds : NewContextFails(t) /\ UNCHANGED << ovars, fvars >>
    \/ \E t \in TaskIds : NewPageOk(t) /\ UNCHANGED << ovars, fvars >>
    \/ \E t \in TaskIds : NewPageFails(t) /\ UNCHANGED << ovars, fvars >>
    \/ \E t \in TaskIds : GotoOk(t) /\ UNCHANGED << ovars, fvars >>
    \/ \E t \in TaskIds : GotoFails(t) /\ UNCHANGED << ovars, fvars >>
    \/ \E t \in TaskIds : ScreenshotOk(t) /\ UNCHANGED << ovars, fvars >>
    \/ \E t \in TaskIds : ScreenshotFails(t) /\ UNCHANGED << ovars, fvars >>
    \/ \E t \in TaskIds : CloseContext(t) /\ UNCHANGED << ovars, fvars >>
    \/ Join /\ UNCHANGED << ovars, fvars >>
    \/ CloseBrowser /\ UNCHANGED << ovars, fvars >>

SpecBatch == InitBatch /\ [][NextBatch]_vars

\* the event loop runs a task that can go on, and every awaited operation of
\* the browser returns or raises: a batch with a step to take takes one
SpecBatchLive == SpecBatch /\ WF_vars(NextBatch)

(***************************************************************************)
(* Claims about one batch (checked under SpecBatch)                        *)
(***************************************************************************)

InputTasks == 2..Len(tasks)

\* the sanitized base name of the record behind input task t
BaseNameOf(t) == sanitize_path_for_filename(UrlParse(results_200[t - 1].url).path)

\* how many earlier records of the batch sanitize to the base name of task t
EarlierSame(t) == Cardinality({ u \in InputTasks : u < t /\ BaseNameOf(u) = BaseNameOf(t) })

Scheduled == bpc \in { "gather", "closing", "returned" }

\* C1: in a batch on a directory that starts empty, the input URLs that sanitize
\* to one base name get pairwise distinct destinations: the first <base>.png, the
\* k-th later one <base>_k.png, in submission order.
C1_DistinctSuffixedPaths ==
    (Scheduled /\ files0 = NoFiles) =>
        /\ \A t \in InputTasks : tasks[t].path = PngName(BaseNameOf(t), EarlierSame(t))
        /\ \A t, u \in InputTasks : t # u => tasks[t].path # tasks[u].path

\* C2: the tasks holding a slot of the semaphore never outnumber the limit, and
\* while a task waits for a slot every slot is held by another task.
C2_GateBounded ==
    /\ Cardinality(InGate) <= limit
    /\ \A t \in TaskIds : tpc[t] = "waiting" =>
           /\ Cardinality(InGate) = limit
           /\ t \notin InGate

\* C2 witness: a task waits while as many tasks as the limit allows are at work
\* in the browser, one of them past new_context.
C2_Witness ==
    /\ \E t \in TaskIds : tpc[t] = "waiting"
    /\ \E u \in TaskIds : tpc[u] \in ContextPcs
    /\ Cardinality(InGate) = limit

\* C3: when a capture task finishes, its destination holds a file, empty if the
\* capture failed and non-empty if it succeeded, whatever the destination held
\* before.
C3_FileMatchesOutcome ==
    [][ \A t \in TaskIds :
            (tpc[t] # "done" /\ tpc'[t] = "done") =>
                /\ Exists(files', tasks[t].path)
                /\ tres'[t] = "failed" => files'[tasks[t].path] = 0
                /\ tres'[t] = "ok" => files'[tasks[t].path] = 1 ]_vars

(***************************************************************************)
(* main(): inputs                                                          *)
(***************************************************************************)

\* most target lines in a URL list file of a modelled run
MaxTargets == 2

\* the thresholds of the gating in run_scan_for_target
AskFrom == 10
DeferAbove == 100

\* what the operator may name as a target
RawTargets == { << "b" >>, Http \o << "c" >>, Https \o << "a" >> }

\* the ways main() gets its targets: --url, --urls-file, or get_user_input
\* with choice 1 or 2; entries are the stripped non-blank lines or the one URL
Inputs ==
    { [ method |-> "url", file_exists |-> TRUE, entries |-> << u >> ] : u \in RawTargets }
    \cup { [ method |-> "urls_file", file_exists |-> TRUE, entries |-> es ] :
             es \in SeqsUpTo(RawTargets, MaxTargets) }
    \cup { [ method |-> "urls_file", file_exists |-> FALSE, entries |-> <<>> ] }
    \cup { [ method |-> "interactive_url", file_exists |-> TRUE, entries |-> es ] :
             es \in SeqsUpTo(RawTargets, 1) }
    \cup { [ method |-> "interactive_file", file_exists |-> TRUE, entries |-> es ] :
             es \in SeqsUpTo(RawTargets, MaxTargets) }
    \cup { [ method |-> "interactive_file", file_exists |-> FALSE, entries |-> <<>> ] }

\* f"https://{t}" if not t.startswith(('http://', 'https://')) else t
Normalize(t) == IF StartsWith(t, Http) \/ StartsWith(t, Https) THEN t ELSE Https \o t

\* is_list_scan as main() sets it
IsListScan(inp) ==
    CASE inp.method = "url" -> FALSE
      [] inp.method = "urls_file" -> TRUE
      [] OTHER -> Len(inp.entries) > 1

(***************************************************************************)
(* The discovery report                                                    *)
(***************************************************************************)

\* numbers of status-200 lines a modelled report holds: none, and the sizes on
\* both sides of each gating threshold (the count is this number plus one)
ReportSizes == { 0, AskFrom - 2, AskFrom - 1, DeferAbove - 1, DeferAbove, DeferAbove + 50 }

\* the lines of a report of target with n status-200 lines: a banner line the
\* pattern does not match, a 404 line, the 200 lines, a 301 line
ReportLines(target, n) ==
    << [ match |-> FALSE ],
       [ match |-> TRUE, status |-> 404, url |-> target \o << "/", "n", "f" >> ] >>
    \o [ k \in 1..n |-> [ match |-> TRUE, status |-> 200,
                          url |-> target \o << "/", "p" >> \o Str(k) ] ]
    \o << [ match |-> TRUE, status |-> 301, url |-> target \o << "/", "m", "v" >> ] >>

\* what run_dirsearch's report file holds when dirsearch exits with code 0:
\* no file at all, no matching line, or a report with n status-200 lines
Reports == { [ kind |-> "no_file", n |-> 0 ], [ kind |-> "no_match", n |-> 0 ] }
           \cup { [ kind |-> "lines", n |-> n ] : n \in ReportSizes }

FileOf(target, report) ==
    CASE report.kind = "no_file" -> <<>>
      [] report.kind = "no_match" -> << [ match |-> FALSE ] >>
      [] OTHER -> ReportLines(target, report.n)

\* parse_dirsearch_output: the (status, url) of every matching line, in file
\* order; a missing file gives the empty list
parse_dirsearch_output(lines) ==
    LET hit == SelectSeq(lines, LAMBDA l : l.match)
    IN  [ k \in 1..Len(hit) |-> [ status |-> hit[k].status, url |-> hit[k].url ] ]

\* [res for res in results if res[0] == 200]
Select200(results) == SelectSeq(results, LAMBDA r : r.status = 200)

(***************************************************************************)
(* Gating                                                                  *)
(***************************************************************************)

\* a gating whose middle band stops one short of DeferAbove
GateBandShort(num_screenshots) ==
    IF num_screenshots < AskFrom THEN [ ask |-> FALSE, default |-> TRUE ]
    ELSE IF AskFrom <= num_screenshots /\ num_screenshots < DeferAbove
         THEN [ ask |-> TRUE, default |-> TRUE ]
         ELSE [ ask |-> TRUE, default |-> FALSE ]

\* the if / elif / else on num_screenshots: "proceed" without a prompt, or the
\* default_on_timeout of the prompt
Gate(num_screenshots) ==
    IF num_screenshots < AskFrom THEN [ ask |-> FALSE, default |-> TRUE ]
    ELSE IF AskFrom <= num_screenshots /\ num_screenshots <= DeferAbove
         THEN [ ask |-> TRUE, default |-> TRUE ]
         ELSE [ ask |-> TRUE, default |-> FALSE ]

\* a prompt that takes any answer given in time for a yes
AskResultAnyAnswerYes(answer, default_on_timeout) ==
    IF answer = "timeout" THEN default_on_timeout ELSE TRUE

\* ask_with_timeout: the answer when the reader thread finished in time, the
\* default when it is still alive after the join
AskResult(answer, default_on_timeout) ==
    IF answer = "timeout" THEN default_on_timeout ELSE answer = "y"

\* a decline that always discards the batch
DeclinedAlwaysSkipped(num_screenshots) == "skipped"

\* what run_scan_for_target returns when proceed is False
DeclinedStatus(num_screenshots) ==
    IF num_screenshots > DeferAbove THEN "deferred" ELSE "skipped"

(***************************************************************************)
(* Output files                                                            *)
(***************************************************************************)

\* datetime.now() as a timestamp: the model's clock is the number of events so far
Timestamp == Str(Len(log))

\* html_output_file.relative_to(TOP_LEVEL_OUTPUT_DIR).as_posix()
GalleryPath(target_url, stamp) ==
    sanitize_url_for_foldername(target_url)
        \o << "/", "g", "a", "l", "l", "e", "r", "y", "_" >> \o stamp
        \o << ".", "h", "t", "m", "l" >>

\* scan_screenshot_dir of a target
ScreenshotDir(target_url) ==
    sanitize_url_for_foldername(target_url)
        \o << "/", "s", "c", "r", "e", "e", "n", "s", "h", "o", "t", "s" >>

\* base_screenshot_path.relative_to(TOP_LEVEL_OUTPUT_DIR).as_posix()
PreviewPath(dir) == dir \o << "/" >> \o base_path

\* what a screenshots directory holds: "none" (just made), "placeholders" (only
\* zero-byte files) or "image" (some non-empty png)
ShotsOf(dir) == IF dir \in DOMAIN shots THEN shots[dir] ELSE "none"

\* the directory after process_all_screenshots, by whether any capture succeeded;
\* a failed capture touches its file and removes nothing
AfterBatch(before, some_ok) ==
    IF some_ok \/ before = "image" THEN "image" ELSE "placeholders"

\* generate_gallery writes the page unless no png of the directory is non-empty
GalleryWritten(dir_state) == dir_state = "image"

\* the dict of a completed scan
Completed(target_url, dir, stamp) ==
    [ url |-> target_url,
      gallery_path |-> GalleryPath(target_url, stamp),
      preview_path |-> PreviewPath(dir) ]

\* insertion of one result into a list sorted by url, after the equal ones
RECURSIVE InsertByUrl(_, _)
InsertByUrl(sorted, r) ==
    IF sorted = <<>> THEN << r >>
    ELSE IF StrLess(r.url, Head(sorted).url) THEN << r >> \o sorted
    ELSE << Head(sorted) >> \o InsertByUrl(Tail(sorted), r)

RECURSIVE SortedByUrl(_)
SortedByUrl(rs) ==
    IF rs = <<>> THEN <<>>
    ELSE InsertByUrl(SortedByUrl(SubSeq(rs, 1, Len(rs) - 1)), rs[Len(rs)])

\* a driver that leaves the results in the order they were completed
Unsorted(rs) == rs

\* scan_results.sort(key=lambda x: x['url']): a stable sort
SortResults(rs) == SortedByUrl(rs)

\* generate_master_index: one card per result, in list order
Cards(rs) ==
    [ k \in 1..Len(rs) |-> [ href |-> rs[k].gallery_path, title |-> rs[k].url,
                             img |-> rs[k].preview_path ] ]

Event(e, t, v) == [ e |-> e, t |-> t, v |-> v ]

NoScan == [ target_url |-> <<>> ]

(***************************************************************************)
(* main(), run_scan_for_target and process_deferred_scans                  *)
(***************************************************************************)

\* a loop that ends after its first target
LoopDoneAfterFirst == loop_i > 1

\* the for loop of main() has handled every target
LoopDone == loop_i > Len(targets)

\* thread.daemon = True: the reader threads left behind end with the process
ReadersLeft == readers' = IF mpc' \in { "done", "exit" } THEN 0 ELSE readers

\* the end of main(): the master index for a list scan with results, then
\* "All scans completed" and a normal return
Finish(rs, events) ==
    /\ IF is_list_scan /\ rs # <<>>
       THEN /\ scan_results' = SortResults(rs)
            /\ master_index' = [ written |-> TRUE, cards |-> Cards(SortResults(rs)) ]
            /\ log' = log \o events \o << Event("index", 0, Len(rs)) >>
       ELSE /\ scan_results' = rs
            /\ master_index' = master_index
            /\ log' = log \o events
    /\ mpc' = "done"
    /\ exit_code' = 0

\* argument parsing, get_user_input and the normalisation of the targets
ParseArgs ==
    /\ mpc = "start"
    /\ IF input.entries = <<>>
       THEN \* file not found, or nothing to scan: main() returns
            /\ mpc' = "done"
            /\ exit_code' = 0
            /\ UNCHANGED << targets, is_list_scan, loop_i >>
       ELSE /\ targets' = [ k \in 1..Len(input.entries) |-> Normalize(input.entries[k]) ]
            /\ is_list_scan' = IsListScan(input)
            /\ loop_i' = 1
            /\ mpc' = "loop"
            /\ UNCHANGED exit_code
    /\ UNCHANGED << input, rpc, scan, scan_results, deferred_scans, shots, galleries,
                    master_index, log, trail, bvars, fvars >>
    /\ ReadersLeft

\* run_scan_for_target up to the call of dirsearch
EnterTarget ==
    /\ mpc = "loop"
    /\ rpc = "none"
    /\ ~LoopDone
    /\ scan' = [ target_url |-> targets[loop_i] ]
    /\ rpc' = "dirsearch"
    /\ log' = Append(log, Event("discover", loop_i, targets[loop_i]))
    /\ trail' = << Event("discover", loop_i, targets[loop_i]) >>
    /\ UNCHANGED << input, mpc, exit_code, targets, is_list_scan, loop_i, scan_results,
                    deferred_scans, shots, galleries, master_index, bvars, fvars >>
    /\ ReadersLeft

\* the body of the for loop of main() after run_scan_for_target returned
ReturnToMain(status, data, steps) ==
    /\ scan_results' = IF status = "completed" THEN Append(scan_results, data)
                       ELSE scan_results
    /\ deferred_scans' = IF status = "deferred" THEN Append(deferred_scans, data)
                         ELSE deferred_scans
    /\ loop_i' = loop_i + 1
    /\ rpc' = "none"
    /\ scan' = NoScan
    /\ trail' = trail \o steps \o << Event("outcome", loop_i, status) >>
    /\ log' = Append(log, Event("outcome", loop_i,
                                [ status |-> status,
                                  data |-> IF status = "completed" THEN data ELSE <<>> ]))

\* the process ends with an exit code other than by main() returning
Exit(code) ==
    /\ mpc' = "exit"
    /\ exit_code' = code
    /\ rpc' = "none"

\* subprocess.run raises FileNotFoundError: sys.exit(1)
DirsearchMissing ==
    /\ rpc = "dirsearch"
    /\ Exit(1)
    /\ trail' = Append(trail, Event("dirsearch", loop_i, [ exit |-> "missing" ]))
    /\ UNCHANGED << input, targets, is_list_scan, loop_i, scan, scan_results,
                    deferred_scans, shots, galleries, master_index, log, bvars, fvars >>
    /\ ReadersLeft

\* a driver that gives up the whole run when dirsearch exits with a non-zero code
DirsearchErrorAborts ==
    /\ rpc = "dirsearch"
    /\ Exit(1)
    /\ trail' = Append(trail, Event("dirsearch", loop_i, [ exit |-> "error" ]))
    /\ UNCHANGED << input, targets, is_list_scan, loop_i, scan, scan_results,
                    deferred_scans, shots, galleries, master_index, log, bvars, fvars >>
    /\ ReadersLeft

\* dirsearch exits with a non-zero code: run_dirsearch returns None
DirsearchError ==
    /\ rpc = "dirsearch"
    /\ ReturnToMain("failed", <<>>, << Event("dirsearch", loop_i, [ exit |-> "error" ]) >>)
    /\ UNCHANGED << input, mpc, exit_code, targets, is_list_scan, shots, galleries,
                    master_index, bvars, fvars >>
    /\ ReadersLeft

\* the payload of a deferred scan
Deferred(target_url, r200, num_screenshots) ==
    [ target_url |-> target_url,
      results_200 |-> r200,
      scan_screenshot_dir |-> ScreenshotDir(target_url),
      num_screenshots |-> num_screenshots ]

\* dirsearch exits with code 0; the report is parsed and the gating decides
\* between capturing at once and asking
DirsearchOk(report) ==
    /\ rpc = "dirsearch"
    /\ LET results == parse_dirsearch_output(FileOf(scan.target_url, report))
           r200 == Select200(results)
           num_screenshots == Len(r200) + 1
           gate == Gate(num_screenshots)
           ran == Event("dirsearch", loop_i, [ exit |-> "ok", report |-> report ])
       IN  IF results = <<>>
           THEN /\ ReturnToMain("skipped", <<>>, << ran >>)
                /\ UNCHANGED << mpc, exit_code >>
           ELSE /\ scan' = [ target_url |-> scan.target_url, results_200 |-> r200,
                             num_screenshots |-> num_screenshots,
                             default_on_timeout |-> gate.default ]
                /\ rpc' = IF gate.ask THEN "ask" ELSE "capture"
                /\ trail' = trail \o << ran >>
                            \o IF gate.ask
                               THEN << Event("prompt", loop_i, gate.default) >>
                               ELSE <<>>
                /\ UNCHANGED << mpc, exit_code, loop_i, scan_results, deferred_scans, log >>
    /\ UNCHANGED << input, targets, is_list_scan, shots, galleries, master_index,
                    bvars, fvars >>
    /\ ReadersLeft

\* thread.is_alive() after the join: the daemon thread of the prompt is left in
\* Prompt.ask; the newline sent to stdin is no choice, and is not sent on win32
StillReading(n) == n + 1

\* ask_with_timeout returns: the operator answered, or the join timed out
PromptAnswer(answer) ==
    /\ mpc = "loop"
    /\ rpc = "ask"
    /\ LET proceed == AskResult(answer, scan.default_on_timeout)
           status == DeclinedStatus(scan.num_screenshots)
           heard == Event("answer", loop_i, answer)
       IN  IF proceed
           THEN /\ rpc' = "capture"
                /\ trail' = Append(trail, heard)
                /\ UNCHANGED << loop_i, scan, scan_results, deferred_scans, log >>
           ELSE ReturnToMain(status,
                             IF status = "deferred"
                             THEN Deferred(scan.target_url, scan.results_200,
                                           scan.num_screenshots)
                             ELSE <<>>,
                             << heard >>)
    /\ readers' = IF answer = "timeout" THEN StillReading(readers) ELSE readers
    /\ UNCHANGED << input, mpc, exit_code, targets, is_list_scan, shots, galleries,
                    master_index, bvars, fvars >>

\* the reader thread ends without an answer (input closed): result_container is
\* empty, result_container[0] raises and the top level exits with code 1
PromptReaderEnds ==
    /\ mpc = "loop"
    /\ rpc = "ask"
    /\ Exit(1)
    /\ trail' = Append(trail, Event("answer", loop_i, "eof"))
    /\ UNCHANGED << input, targets, is_list_scan, loop_i, scan, scan_results,
                    deferred_scans, shots, galleries, master_index, log, bvars, fvars >>
    /\ ReadersLeft

\* a prompt is on the screen and waits for a line of the operator
PromptOpen == (mpc = "loop" /\ rpc = "ask") \/ mpc = "confirm"

\* the line the operator types at the open prompt is read by the thread an earlier
\* timed-out prompt left behind: it appends to its own result_container and ends
AbandonedReaderReads ==
    /\ PromptOpen
    /\ readers > 0
    /\ readers' = readers - 1
    /\ UNCHANGED << input, mpc, exit_code, targets, is_list_scan, loop_i, rpc, scan,
                    scan_results, deferred_scans, shots, galleries, master_index, log,
                    trail, bvars, fvars >>

\* await process_all_screenshots(results_200, target_url, scan_screenshot_dir)
CaptureBatch(some_ok) ==
    /\ mpc = "loop"
    /\ rpc = "capture"
    /\ LET dir == ScreenshotDir(scan.target_url)
           batch == [ kind |-> "first", url |-> scan.target_url ]
       IN  /\ shots' = (dir :> AfterBatch(ShotsOf(dir), some_ok)) @@ shots
           /\ log' = Append(log, Event("capture", loop_i, batch))
           /\ trail' = Append(trail, Event("capture", loop_i, Len(scan.results_200) + 1))
    /\ rpc' = "gallery"
    /\ UNCHANGED << input, mpc, exit_code, targets, is_list_scan, loop_i, scan,
                    scan_results, deferred_scans, galleries, master_index, bvars, fvars >>
    /\ ReadersLeft

\* generate_gallery and the return of the completed scan
BuildGallery ==
    /\ mpc = "loop"
    /\ rpc = "gallery"
    /\ LET dir == ScreenshotDir(scan.target_url)
           data == Completed(scan.target_url, dir, Timestamp)
       IN  /\ galleries' = IF GalleryWritten(ShotsOf(dir))
                           THEN galleries \cup { data.gallery_path } ELSE galleries
           /\ ReturnToMain("completed", data,
                           << Event("gallery", loop_i, data.gallery_path) >>)
    /\ UNCHANGED << input, mpc, exit_code, targets, is_list_scan, shots,
                    master_index, bvars, fvars >>
    /\ ReadersLeft

\* a driver that offers the postponed jobs whether or not there are any
AlwaysOffers == TRUE

\* if deferred_scans:
HasDeferred == deferred_scans # <<>>

\* after the for loop: process_deferred_scans prints its summary and asks, or,
\* with nothing deferred, main() goes on to its end
LoopEnd ==
    /\ mpc = "loop"
    /\ rpc = "none"
    /\ LoopDone
    /\ IF HasDeferred
       THEN /\ mpc' = "confirm"
            /\ log' = Append(log, Event("confirm_ask", 0, Len(deferred_scans)))
            /\ UNCHANGED << exit_code, scan_results, master_index >>
       ELSE Finish(scan_results, <<>>)
    /\ trail' = <<>>
    /\ UNCHANGED << input, targets, is_list_scan, loop_i, rpc, scan, deferred_scans,
                    shots, galleries, bvars, fvars >>
    /\ ReadersLeft

\* a resume that scans each postponed target again instead of using what the
\* first pass kept
ConfirmAnswerRediscovers(yes) ==
    /\ mpc = "confirm"
    /\ LET heard == Event("confirm_answer", 0, yes)
       IN  IF yes
           THEN /\ mpc' = "resume"
                /\ rpc' = "dirsearch"
                /\ scan' = [ target_url |-> deferred_scans[1].target_url, d |-> 1,
                             completed_scan_results |-> <<>> ]
                /\ log' = Append(log, heard)
                /\ UNCHANGED << exit_code, scan_results, master_index >>
           ELSE /\ Finish(scan_results \o <<>>, << heard >>)
                /\ UNCHANGED << rpc, scan >>
    /\ UNCHANGED << input, targets, is_list_scan, loop_i, deferred_scans, shots,
                    galleries, trail, bvars, fvars >>
    /\ ReadersLeft

\* Confirm.ask returns
ConfirmAnswer(yes) ==
    /\ mpc = "confirm"
    /\ LET heard == Event("confirm_answer", 0, yes)
       IN  IF yes
           THEN /\ mpc' = "resume"
                /\ rpc' = "capture"
                /\ scan' = [ target_url |-> deferred_scans[1].target_url, d |-> 1,
                             completed_scan_results |-> <<>> ]
                /\ log' = Append(log, heard)
                /\ UNCHANGED << exit_code, scan_results, master_index >>
           ELSE /\ Finish(scan_results \o <<>>, << heard >>)
                /\ UNCHANGED << rpc, scan >>
    /\ UNCHANGED << input, targets, is_list_scan, loop_i, deferred_scans, shots,
                    galleries, trail, bvars, fvars >>
    /\ ReadersLeft

\* Confirm.ask raises EOFError (input closed): the top level exits with code 1
ConfirmReaderEnds ==
    /\ mpc = "confirm"
    /\ Exit(1)
    /\ log' = Append(log, Event("confirm_answer", 0, "eof"))
    /\ UNCHANGED << input, targets, is_list_scan, loop_i, scan, scan_results,
                    deferred_scans, shots, galleries, master_index, trail, bvars, fvars >>
    /\ ReadersLeft

\* the resume loop: await process_all_screenshots with the deferred scan's data
ResumeCapture(some_ok) ==
    /\ mpc = "resume"
    /\ rpc = "capture"
    /\ LET scan_data == deferred_scans[scan.d]
           dir == scan_data.scan_screenshot_dir
       IN  /\ shots' = (dir :> AfterBatch(ShotsOf(dir), some_ok)) @@ shots
           /\ log' = Append(log, Event("capture", scan.d,
                                       [ kind |-> "resumed", url |-> scan_data.target_url ]))
    /\ rpc' = "gallery"
    /\ UNCHANGED << input, mpc, exit_code, targets, is_list_scan, loop_i, scan,
                    scan_results, deferred_scans, galleries, master_index, trail,
                    bvars, fvars >>
    /\ ReadersLeft

\* the resume loop: generate_gallery and the append; after the last deferred
\* scan process_deferred_scans returns and main() goes on to its end
ResumeGallery ==
    /\ mpc = "resume"
    /\ rpc = "gallery"
    /\ LET scan_data == deferred_scans[scan.d]
           dir == scan_data.scan_screenshot_dir
           data == Completed(scan_data.target_url, dir, Timestamp)
           done == Append(scan.completed_scan_results, data)
           events == << Event("resumed", scan.d, [ status |-> "completed", data |-> data ]) >>
       IN  /\ galleries' = IF GalleryWritten(ShotsOf(dir))
                           THEN galleries \cup { data.gallery_path } ELSE galleries
           /\ IF scan.d < Len(deferred_scans)
              THEN /\ scan' = [ target_url |-> deferred_scans[scan.d + 1].target_url,
                                d |-> scan.d + 1, completed_scan_results |-> done ]
                   /\ rpc' = "capture"
                   /\ log' = log \o events
                   /\ UNCHANGED << mpc, exit_code, scan_results, master_index >>
              ELSE /\ Finish(scan_results \o done, events)
                   /\ rpc' = "none"
                   /\ scan' = NoScan
    /\ UNCHANGED << input, targets, is_list_scan, loop_i, deferred_scans, shots,
                    trail, bvars, fvars >>
    /\ ReadersLeft

\* KeyboardInterrupt reaches the top level, which exits with code 0. It arrives
\* while the process waits: in dirsearch, at a prompt, or in a capture batch
\* (a batch being one step here, the interrupted batch is the state after it)
Interrupt ==
    /\ \/ mpc = "loop" /\ rpc \in { "dirsearch", "ask", "gallery" }
       \/ mpc = "confirm"
       \/ mpc = "resume" /\ rpc = "gallery"
    /\ Exit(0)
    /\ trail' = Append(trail, Event("interrupt", loop_i, mpc))
    /\ UNCHANGED << input, targets, is_list_scan, loop_i, scan, scan_results,
                    deferred_scans, shots, galleries, master_index, log, bvars, fvars >>
    /\ ReadersLeft

\* no batch is running
BatchIdle ==
    /\ results_200 = <<>>
    /\ base_target_url = <<>>
    /\ files0 = NoFiles
    /\ files = NoFiles
    /\ limit = MAX_CONCURRENT_SCREENSHOTS
    /\ semaphore = [ value |-> limit, waiters |-> <<>> ]
    /\ browser = "none"
    /\ tasks = <<>>
    /\ tpc = <<>>
    /\ tres = <<>>
    /\ bpc = "idle"
    /\ returned = <<>>
    /\ context = {}

Init ==
    /\ input \in Inputs
    /\ mpc = "start"
    /\ exit_code = -1
    /\ targets = <<>>
    /\ is_list_scan = FALSE
    /\ loop_i = 0
    /\ rpc = "none"
    /\ scan = NoScan
    /\ scan_results = <<>>
    /\ deferred_scans = <<>>
    /\ shots = <<>>
    /\ galleries = {}
    /\ master_index = NotWritten
    /\ log = <<>>
    /\ trail = <<>>
    /\ readers = 0
    /\ BatchIdle
    /\ FnIdle

Next ==
    \/ ParseArgs
    \/ EnterTarget
    \/ DirsearchMissing
    \/ DirsearchError
    \/ \E report \in Reports : DirsearchOk(report)
    \/ \E answer \in { "y", "n", "timeout" } : PromptAnswer(answer)
    \/ PromptReaderEnds
    \/ AbandonedReaderReads
    \/ \E some_ok \in BOOLEAN : CaptureBatch(some_ok)
    \/ BuildGallery
    \/ LoopEnd
    \/ \E yes \in BOOLEAN : ConfirmAnswer(yes)
    \/ ConfirmReaderEnds
    \/ \E some_ok \in BOOLEAN : ResumeCapture(some_ok)
    \/ ResumeGallery
    \/ Interrupt

Spec == Init /\ [][Next]_vars

(***************************************************************************)
(* SpecFn: one call of a function without side effects                     *)
(***************************************************************************)

\* most pieces a modelled path is put together from
MaxPieces == 3

\* most records in a modelled list of results
MaxResults == 3

\* what a path is put together from: separators, characters a file name keeps
\* and characters it drops, a query mark, and page extensions in both cases
PathPieces ==
    { << "/" >>, << "a" >>, << "Z" >>, << "7" >>, << "_" >>, << "-" >>, << "." >>,
      << "?" >>, << "%" >>, << ".", "p", "h", "p" >>, << ".", "H", "t", "M" >> }

RECURSIVE Concat(_)
Concat(pieces) == IF pieces = <<>> THEN <<>> ELSE Head(pieces) \o Concat(Tail(pieces))

Paths == { Concat(ps) : ps \in SeqsUpTo(PathPieces, MaxPieces) }

\* the status codes of the priority table, and one outside it
StatusCodes == { 200, 301, 302, 403, 404, 500 }

ResultUrls == { << "a" >>, << "b" >>, << "c" >> }

ResultLists ==
    SeqsUpTo({ [ status |-> c, url |-> u ] : c \in StatusCodes, u \in ResultUrls }, MaxResults)

\* a table that ranks a temporary redirect with the other codes
PriorityWithout302(status) ==
    CASE status = 200 -> 1
      [] status = 301 -> 2
      [] status = 403 -> 3
      [] status = 404 -> 4
      [] OTHER -> 5

\* STATUS_CODE_PRIORITY.get(x[0], STATUS_CODE_PRIORITY['default'])
Priority(status) ==
    CASE status = 200 -> 1
      [] status = 301 -> 2
      [] status = 302 -> 2
      [] status = 403 -> 3
      [] status = 404 -> 4
      [] OTHER -> 5

\* insertion of one record into a list sorted by priority, after the equal ones
RECURSIVE InsertByPriority(_, _)
InsertByPriority(sorted, r) ==
    IF sorted = <<>> THEN << r >>
    ELSE IF Priority(r.status) < Priority(Head(sorted).status) THEN << r >> \o sorted
    ELSE << Head(sorted) >> \o InsertByPriority(Tail(sorted), r)

\* sorted(results, key=...): a stable sort
RECURSIVE sort_results(_)
sort_results(results) ==
    IF results = <<>> THEN <<>>
    ELSE InsertByPriority(sort_results(SubSeq(results, 1, Len(results) - 1)),
                          results[Len(results)])

FnCalls ==
    { [ fn |-> "sanitize_path_for_filename", path_str |-> p ] : p \in Paths }
    \cup { [ fn |-> "sort_results", results |-> rs ] : rs \in ResultLists }

InitFn ==
    /\ fn_call \in FnCalls
    /\ fn_result = Pending
    /\ BatchIdle
    /\ MainIdle

CallSanitize ==
    /\ fn_call.fn = "sanitize_path_for_filename"
    /\ ~fn_result.done
    /\ fn_result' = Returned(sanitize_path_for_filename(fn_call.path_str))
    /\ UNCHANGED << fn_call, bvars, ovars >>

CallSort ==
    /\ fn_call.fn = "sort_results"
    /\ ~fn_result.done
    /\ fn_result' = Returned(sort_results(fn_call.results))
    /\ UNCHANGED << fn_call, bvars, ovars >>

NextFn ==
    \/ CallSanitize
    \/ CallSort

SpecFn == InitFn /\ [][NextFn]_vars

(***************************************************************************)
(* Claims about one target's scan (checked under Spec, on the trail)       *)
(***************************************************************************)

\* the values of the trail's steps of one kind, in order
Steps(kind) ==
    LET hit == SelectSeq(trail, LAMBDA x : x.e = kind)
    IN  [ k \in 1..Len(hit) |-> hit[k].v ]

\* the first position of a step of that kind in the trail, 0 if none
StepAt(kind) ==
    LET at == { k \in 1..Len(trail) : trail[k].e = kind }
    IN  IF at = {} THEN 0 ELSE CHOOSE k \in at : \A j \in at : k <= j

Did(kind) == StepAt(kind) # 0

\* the target the trail is about
TrailTarget == trail[1].v

\* dirsearch ended with code 0 and its report had matching lines: the gating ran
Gated ==
    /\ Did("dirsearch")
    /\ Steps("dirsearch")[1].exit = "ok"
    /\ Steps("dirsearch")[1].report.kind = "lines"

\* the count of the claims: the number of status-200 lines of the report, plus one
Count == Steps("dirsearch")[1].report.n + 1

\* the scan went on to the capture: it is about to run, or it ran
Proceeded == (mpc = "loop" /\ rpc = "capture") \/ Did("capture")

Answered(a) == Did("answer") /\ Steps("answer")[1] = a

Outcome(status) == Did("outcome") /\ Steps("outcome")[1] = status

\* C4: once the gating ran: with a count below 10 the scan goes on to the capture
\* and nothing is asked; with a count of 10..100 the operator is asked and a
\* timeout goes on to the capture; above 100 the operator is asked and a timeout
\* defers the batch.
C4_Gating ==
    Gated =>
        /\ Count < 10 => ~Did("prompt") /\ ~Did("answer") /\ Proceeded
        /\ (10 <= Count /\ Count <= 100) =>
               /\ Did("prompt")
               /\ Answered("timeout") => Proceeded /\ ~Outcome("skipped") /\ ~Outcome("deferred")
        /\ Count > 100 =>
               /\ Did("prompt")
               /\ Answered("timeout") => Outcome("deferred") /\ ~Did("capture")

\* C4 witness: a count of exactly 100, the prompt timed out, the capture ran.
C4_Witness == Gated /\ Count = 100 /\ Answered("timeout") /\ Did("capture")

\* the status-200 lines of the report behind the trail, in file order
Report200 ==
    LET lines == FileOf(TrailTarget, Steps("dirsearch")[1].report)
    IN  [ k \in 1..(Count - 1) |-> [ status |-> 200, url |-> lines[k + 2].url ] ]

\* C5: above 100, a timeout and an explicit no both end the scan as deferred,
\* never skipped, and the deferred scan carries the target, its status-200
\* records in report order, its screenshots directory and the count.
C5_DeferredPayload ==
    (Gated /\ Count > 100 /\ (Answered("n") \/ Answered("timeout"))) =>
        /\ Outcome("deferred")
        /\ deferred_scans # <<>>
        /\ LET carried == deferred_scans[Len(deferred_scans)]
           IN  /\ carried.target_url = TrailTarget
               /\ carried.results_200 = Report200
               /\ carried.scan_screenshot_dir = ScreenshotDir(TrailTarget)
               /\ carried.num_screenshots = Count

\* C5 witness: 150 status-200 lines, no answer in time: deferred with a count of 151.
C5_Witness ==
    /\ Gated /\ Count = 151 /\ Answered("timeout") /\ Outcome("deferred")
    /\ deferred_scans[Len(deferred_scans)].num_screenshots = 151
    /\ Len(deferred_scans[Len(deferred_scans)].results_200) = 150

\* C6: a scan that returns has one outcome out of completed, skipped, deferred
\* and failed; a non-zero exit of dirsearch gives failed, a report without a
\* parsed record gives skipped, a no at a count of 10..100 gives skipped; the
\* capture is entered only after the gating resolved to proceed, and completed
\* is returned only after the capture and the gallery step.
C6_Outcomes ==
    /\ Did("outcome") =>
           /\ Len(Steps("outcome")) = 1
           /\ Steps("outcome")[1] \in { "completed", "skipped", "deferred", "failed" }
           /\ Steps("dirsearch")[1].exit = "error" <=> Outcome("failed")
           /\ (Steps("dirsearch")[1].exit = "ok" /\ ~Gated) => Outcome("skipped")
           /\ (Gated /\ 10 <= Count /\ Count <= 100 /\ Answered("n")) => Outcome("skipped")
           /\ Outcome("completed") =>
                  /\ Did("capture") /\ Did("gallery")
                  /\ StepAt("capture") < StepAt("gallery")
                  /\ StepAt("gallery") < StepAt("outcome")
    /\ Proceeded =>
           /\ Gated
           /\ \/ Count < 10 /\ ~Did("prompt")
              \/ Answered("y")
              \/ Answered("timeout") /\ Count <= 100

\* C6 witness: a scan the operator approved returned completed after its capture
\* and its gallery step.
C6_Witness ==
    /\ Outcome("completed") /\ Answered("y")
    /\ StepAt("capture") < StepAt("gallery")

(***************************************************************************)
(* Claims about the whole run (checked under Spec, on the log)             *)
(***************************************************************************)

LogAt(kind) == { k \in 1..Len(log) : log[k].e = kind }

\* target j left run_scan_for_target before position k of the log
LeftBefore(j, k) == \E q \in LogAt("outcome") : q < k /\ log[q].t = j

ResumedCaptures == { k \in LogAt("capture") : log[k].v.kind = "resumed" }

\* C7: the targets are scanned one at a time in list order, a target being
\* entered only after every earlier one has its outcome, and no deferred batch
\* is captured before every target of the list has its outcome.
C7_Sequential ==
    /\ \A k \in LogAt("discover") :
           /\ log[k].t = Cardinality({ q \in LogAt("discover") : q <= k })
           /\ log[k].v = targets[log[k].t]
           /\ \A j \in 1..(log[k].t - 1) : LeftBefore(j, k)
    /\ \A k \in ResumedCaptures :
           \A j \in 1..Len(targets) : LeftBefore(j, k)

\* C7 witness: a deferred batch is captured in a run of several targets.
C7_Witness == Len(targets) > 1 /\ ResumedCaptures # {}

\* the values of the log's events of one kind, in order
Logged(kind) ==
    LET hit == SelectSeq(log, LAMBDA x : x.e = kind)
    IN  [ k \in 1..Len(hit) |-> hit[k].v ]

\* the targets deferred in the first pass, in the order they were deferred
DeferredUrls ==
    LET hit == SelectSeq(log, LAMBDA x : x.e = "outcome" /\ x.v.status = "deferred")
    IN  [ k \in 1..Len(hit) |-> targets[hit[k].t] ]

\* the results completed in the first pass, and those completed by resuming
FirstPassDone ==
    LET hit == SelectSeq(log, LAMBDA x : x.e = "outcome" /\ x.v.status = "completed")
    IN  [ k \in 1..Len(hit) |-> hit[k].v.data ]

ResumedDone == [ k \in 1..Len(Logged("resumed")) |-> Logged("resumed")[k].data ]

ResumedCaptureUrls ==
    LET hit == SelectSeq(log, LAMBDA x : x.e = "capture" /\ x.v.kind = "resumed")
    IN  [ k \in 1..Len(hit) |-> hit[k].v.url ]

Times(seq, x) == Cardinality({ k \in 1..Len(seq) : seq[k] = x })

\* two sequences hold the same elements, each as often
SameBag(a, b) ==
    /\ Len(a) = Len(b)
    /\ \A k \in 1..Len(a) : Times(a, a[k]) = Times(b, a[k])

\* C8: the aggregate confirmation is asked only after the first pass and only
\* if something was deferred, and a run that ends normally has asked it once if
\* a target was deferred and never otherwise; after a yes every deferred batch
\* is captured and gets its gallery step, in deferral order, and joins the
\* completed results; after a no none is captured and the completed results are
\* those of the first pass.
C8_AggregateConfirmation ==
    /\ Len(Logged("confirm_ask")) <= 1
    /\ Logged("confirm_ask") # <<>> =>
           /\ DeferredUrls # <<>>
           /\ \A j \in 1..Len(targets) : LeftBefore(j, CHOOSE k \in LogAt("confirm_ask") : TRUE)
    /\ (mpc = "done" /\ targets # <<>>) =>
           /\ Len(Logged("confirm_ask")) = (IF DeferredUrls # <<>> THEN 1 ELSE 0)
           /\ Logged("confirm_answer") = << TRUE >> =>
                  /\ ResumedCaptureUrls = DeferredUrls
                  /\ [ k \in 1..Len(ResumedDone) |-> ResumedDone[k].url ] = DeferredUrls
                  /\ SameBag(scan_results, FirstPassDone \o ResumedDone)
           /\ Logged("confirm_answer") # << TRUE >> =>
                  /\ ResumedCaptureUrls = <<>>
                  /\ ResumedDone = <<>>
                  /\ SameBag(scan_results, FirstPassDone)

\* C8 witness: two targets were deferred, the operator said yes, the run ended.
C8_Witness ==
    /\ mpc = "done"
    /\ Len(DeferredUrls) = 2
    /\ DeferredUrls[1] # DeferredUrls[2]
    /\ Logged("confirm_answer") = << TRUE >>
    /\ Len(ResumedDone) = 2

\* C9: the master index is written only in a run of more than one target.
C9_IndexOnlyForSeveralTargets ==
    master_index.written => Len(targets) > 1

\* C10: the master index has one card per completed result, of the first pass
\* or resumed, with that result's gallery and the base screenshot of its target,
\* and its cards are in ascending order of target URL.
C10_MasterIndex ==
    master_index.written =>
        LET done == FirstPassDone \o ResumedDone
            cards == [ k \in 1..Len(done) |-> [ href |-> done[k].gallery_path,
                                                title |-> done[k].url,
                                                img |-> done[k].preview_path ] ]
        IN  /\ SameBag(master_index.cards, cards)
            /\ \A k \in 1..(Len(master_index.cards) - 1) :
                   ~StrLess(master_index.cards[k + 1].title, master_index.cards[k].title)
            /\ \A k \in 1..Len(master_index.cards) :
                   /\ master_index.cards[k].title \in Range(targets)
                   /\ master_index.cards[k].img = ScreenshotDir(master_index.cards[k].title)
                                                \o << "/" >> \o BaseName \o PngSuffix
                   /\ StartsWith(master_index.cards[k].href,
                                 sanitize_url_for_foldername(master_index.cards[k].title)
                                     \o << "/", "g", "a", "l", "l", "e", "r", "y", "_" >>)

\* C10 witness: an index of a first-pass result and a resumed one, whose cards
\* are not in the order the results were completed.
C10_Witness ==
    /\ master_index.written
    /\ FirstPassDone # <<>>
    /\ ResumedDone # <<>>
    /\ [ k \in 1..Len(master_index.cards) |-> master_index.cards[k].title ]
           # [ k \in 1..Len(FirstPassDone \o ResumedDone) |->
                   (FirstPassDone \o ResumedDone)[k].url ]

(***************************************************************************)
(* Claims about the ways the run ends (checked under Spec)                 *)
(***************************************************************************)

Ended == mpc \in { "done", "exit" }

LastStep == trail[Len(trail)]

\* --urls-file names a file that does not exist
MissingInputFile == input.method = "urls_file" /\ ~input.file_exists

\* the run ended by main() returning, with its input file, if any, found
NormalCompletion == mpc = "done" /\ ~MissingInputFile

\* the run ended at the top level's except KeyboardInterrupt
Interrupted == mpc = "exit" /\ trail # <<>> /\ LastStep.e = "interrupt"

\* the run ended at the sys.exit(1) of run_dirsearch
MissingExecutable ==
    mpc = "exit" /\ trail # <<>> /\ LastStep.e = "dirsearch" /\ LastStep.v.exit = "missing"

\* the run ended at the top level's except Exception
UnexpectedError ==
    /\ mpc = "exit"
    /\ \/ trail # <<>> /\ LastStep.e = "answer"
       \/ trail = <<>> /\ log # <<>> /\ log[Len(log)].e = "confirm_answer"

\* C11: a run that ended has exit code 0 after a normal completion or an
\* interrupt, and exit code 1 after an unexpected error, a missing dirsearch
\* executable or a missing --urls-file file.
C11_ExitCodes ==
    Ended =>
        /\ (NormalCompletion \/ Interrupted) => exit_code = 0
        /\ (UnexpectedError \/ MissingExecutable \/ MissingInputFile) => exit_code = 1

FailedTargets == { log[k].t : k \in { q \in LogAt("outcome") : log[q].v.status = "failed" } }

\* C12: after dirsearch failed on a target the loop is past that target with the
\* results completed so far kept, a run is cut short only by an interrupt, a
\* missing executable or an unexpected error, and once the loop is over every
\* target of the list has its outcome.
C12_FailureIsLocal ==
    /\ \A j \in FailedTargets : loop_i > j
    /\ \A k \in 1..Len(FirstPassDone) : FirstPassDone[k] \in Range(scan_results)
    /\ mpc = "exit" => (Interrupted \/ MissingExecutable \/ UnexpectedError)
    /\ (mpc \in { "confirm", "resume", "done" } /\ targets # <<>>) =>
           \A j \in 1..Len(targets) : LeftBefore(j, Len(log) + 1)

\* C12 witness: dirsearch failed on the first of two targets, the second was
\* scanned and completed, and the run ended normally with that result.
C12_Witness ==
    /\ mpc = "done"
    /\ Len(targets) = 2
    /\ FailedTargets = { 1 }
    /\ Len(FirstPassDone) = 1
    /\ scan_results = FirstPassDone

\* C13: a run of several targets that ended with at least one target completed
\* has written the master index, with a card for each of them.
C13_IndexBeforeExit ==
    (Ended /\ Len(targets) > 1 /\ FirstPassDone # <<>>) =>
        /\ master_index.written
        /\ \A k \in 1..Len(FirstPassDone) :
               \E c \in 1..Len(master_index.cards) :
                   master_index.cards[c].href = FirstPassDone[k].gallery_path

(***************************************************************************)
(* Claims about resuming (checked under Spec)                              *)
(***************************************************************************)

\* how often target j was handed to run_scan_for_target, which calls dirsearch
Discoveries(j) == Cardinality({ k \in LogAt("discover") : log[k].t = j })

\* C15: no target is scanned by dirsearch more than once, each was scanned once
\* when the loop is over, nothing is scanned after the aggregate confirmation was
\* asked, and a resumed batch does only the capture and the gallery step, on the
\* target URL and the screenshots directory its deferred scan carries.
C15_DiscoveryOnce ==
    /\ \A j \in 1..Len(targets) : Discoveries(j) <= 1
    /\ (mpc \in { "confirm", "resume", "done" } /\ targets # <<>>) =>
           \A j \in 1..Len(targets) : Discoveries(j) = 1
    /\ \A k \in LogAt("discover") : \A q \in LogAt("confirm_ask") : k < q
    /\ mpc = "resume" =>
           /\ rpc \in { "capture", "gallery" }
           /\ ~Did("dirsearch")
           /\ scan.d \in 1..Len(deferred_scans)
           /\ scan.target_url = deferred_scans[scan.d].target_url
    /\ \A k \in ResumedCaptures : log[k].v.url = deferred_scans[log[k].t].target_url
    /\ \A k \in 1..Len(ResumedDone) :
           /\ ResumedDone[k].url = deferred_scans[k].target_url
           /\ ResumedDone[k].preview_path = PreviewPath(deferred_scans[k].scan_screenshot_dir)

\* C15 witness: the second of two deferred batches is being resumed, the first
\* resumed one is completed.
C15_Witness ==
    /\ mpc = "resume"
    /\ rpc = "gallery"
    /\ scan.d = 2
    /\ Len(ResumedDone) = 1
    /\ Cardinality(LogAt("discover")) = 2

(***************************************************************************)
(* Claims about the browser of one batch (checked under SpecBatch)         *)
(***************************************************************************)

\* the positions at which a task has started and not finished
StartedPcs == GatePcs \cup { "waiting" }

\* C14: a batch starts without a session, launches one before it schedules a
\* capture, every capture that has started and not finished finds it open, it is
\* closed only when every scheduled capture, failed or not, is done, and the
\* batch returns with it closed.
C14_SingleSession ==
    /\ bpc = "call" => browser = "none"
    /\ tasks # <<>> => browser # "none"
    /\ \A t \in TaskIds : tpc[t] \in StartedPcs => browser = "open"
    /\ browser = "closed" => \A t \in TaskIds : tpc[t] = "done"
    /\ bpc = "returned" => browser = "closed"

\* C14 witness: a batch of three captures, one failed and one succeeded, has
\* returned with its session closed.
C14_Witness ==
    /\ bpc = "returned"
    /\ browser = "closed"
    /\ Len(tasks) = 3
    /\ \E t, u \in TaskIds : tres[t] = "failed" /\ tres[u] = "ok"

\* C18: at every moment the slots out are those of the tasks at work, so a task
\* that finished, failed or not, has given its slot back; and every batch comes
\* to return the base path with every scheduled capture finished, whichever of
\* them failed.
C18_BatchCompletes ==
    /\ [](semaphore.value = limit - Cardinality(InGate))
    /\ <>(/\ bpc = "returned"
          /\ returned = base_path
          /\ \A t \in TaskIds : tpc[t] = "done" /\ tres[t] \in { "ok", "failed" })

\* C18 witness: with a single slot, the first of three captures failed, a later
\* one succeeded, and the batch returned the base path.
C18_Witness ==
    /\ limit = 1
    /\ Len(tasks) = 3
    /\ tres[1] = "failed"
    /\ \E u \in 2..3 : tres[u] = "ok"
    /\ returned = base_path
    /\ semaphore.value = limit

\* C19: a task has at most one open context, open while the task works on a
\* page and navigated to that task's URL only; a task that finished, its capture
\* succeeded or failed, has no open context, and when the tasks are joined no
\* context of the batch is open.
C19_ContextPerCapture ==
    /\ \A c \in context : c.task \in TaskIds /\ c.urls \subseteq { tasks[c.task].url }
    /\ \A t \in TaskIds :
           /\ Cardinality(ContextsOf(t)) <= 1
           /\ tpc[t] \in { "ctx", "page", "nav" } => ContextsOf(t) # {}
           /\ tpc[t] = "nav" => ContextsOf(t) = { [ task |-> t, urls |-> { tasks[t].url } ] }
           /\ tpc[t] = "done" => ContextsOf(t) = {}
    /\ bpc \in { "closing", "returned" } => context = {}

\* C19 witness: a capture has failed at its navigation and waits for its context
\* to close while another task's context is open, and a third task, which
\* failed and had its context closed, is done.
C19_Witness ==
    \E t, u, w \in TaskIds :
        /\ tpc[t] = "finally" /\ tres[t] = "failed"
        /\ ContextsOf(t) = { [ task |-> t, urls |-> { tasks[t].url } ] }
        /\ u # t /\ ContextsOf(u) # {}
        /\ tpc[w] = "done" /\ tres[w] = "failed"

(***************************************************************************)
(* Claims about functions (checked under SpecFn)                           *)
(***************************************************************************)

Sanitized == fn_call.fn = "sanitize_path_for_filename" /\ fn_result.done

\* the characters a file name may be made of: letters, digits, "_" and "-"
AllowedChars ==
    { Ascii[i] : i \in 1..Len(Ascii) } \ { ".", "/", ":", "?" }

\* the path with its query and outer slashes removed, slashes turned into
\* underscores, a page extension dropped and every other character removed
SanitizedForm(path_str) ==
    KeepFilenameChars(StripExtension(SlashToUnderscore(StripSlash(BeforeQuery(path_str)))))

\* C16: the name returned for a path is not empty and made of letters, digits,
\* "_" and "-" only; it is "index" for the empty path and for "/", "page" for
\* any other path whose sanitized form is empty, and the sanitized form otherwise.
C16_SafeFileName ==
    Sanitized =>
        LET path_str == fn_call.path_str
            name == fn_result.value
        IN  /\ name # <<>>
            /\ \A i \in 1..Len(name) : name[i] \in AllowedChars
            /\ path_str \in { <<>>, << "/" >> } => name = << "i", "n", "d", "e", "x" >>
            /\ (path_str \notin { <<>>, << "/" >> } /\ SanitizedForm(path_str) = <<>>) =>
                   name = << "p", "a", "g", "e" >>
            /\ (path_str \notin { <<>>, << "/" >> } /\ SanitizedForm(path_str) # <<>>) =>
                   name = SanitizedForm(path_str)

\* C16 witness: a path of several slashes, which is not the root path and has
\* nothing left after sanitizing, was named "page".
C16_Witness ==
    /\ Sanitized
    /\ fn_call.path_str = << "/", "/", "/" >>
    /\ fn_result.value = << "p", "a", "g", "e" >>

Classified == fn_call.fn = "sort_results" /\ fn_result.done

\* the rank the priority table gives a status code
Rank(status) ==
    IF status = 200 THEN 1
    ELSE IF status \in { 301, 302 } THEN 2
    ELSE IF status = 403 THEN 3
    ELSE IF status = 404 THEN 4
    ELSE 5

OfRank(rs, r) == SelectSeq(rs, LAMBDA x : Rank(x.status) = r)

\* C17: the sorted list has its records in order of rank, lowest first, the
\* records of each rank are those of the input in the input's order, and sorting
\* the sorted list again gives the same list.
C17_StableClassify ==
    Classified =>
        LET given == fn_call.results
            sorted == fn_result.value
        IN  /\ Len(sorted) = Len(given)
            /\ \A k \in 1..(Len(sorted) - 1) :
                   Rank(sorted[k].status) <= Rank(sorted[k + 1].status)
            /\ \A r \in 1..5 : OfRank(sorted, r) = OfRank(given, r)
            /\ sort_results(sorted) = sorted

\* C17 witness: the report 200 a, 404 b, 301 c was sorted to 200 a, 301 c, 404 b.
C17_Witness ==
    /\ Classified
    /\ fn_call.results = << [ status |-> 200, url |-> << "a" >> ],
                            [ status |-> 404, url |-> << "b" >> ],
                            [ status |-> 301, url |-> << "c" >> ] >>
    /\ fn_result.value = << [ status |-> 200, url |-> << "a" >> ],
                            [ status |-> 301, url |-> << "c" >> ],
                            [ status |-> 404, url |-> << "b" >> ] >>

(***************************************************************************)
(* Claims about the timed prompt (checked under Spec)                      *)
(***************************************************************************)

\* the positions of the current target's steps at which ask_with_timeout ended
AskEnds == { k \in 1..Len(trail) : trail[k].e = "answer" }

\* C20: ask_with_timeout always returns a yes/no decision and never raises:
\* every call ends with the operator's 'y' or 'n' or with the deadline, for
\* every way the read can end, and the run never ends at the call.
C20_AskAlwaysDecides ==
    \A k \in AskEnds :
        /\ trail[k].v \in { "y", "n", "timeout" }
        /\ ~(mpc = "exit" /\ k = Len(trail))

(***************************************************************************)
(* Claims about the gallery of a completed scan (checked under Spec)       *)
(***************************************************************************)

\* the completed outcomes main() holds, of the first pass and of the resumed scans
CompletedOutcomes == Range(scan_results)

\* C21: every completed outcome, of the first pass or of a resumed deferred
\* batch, names a gallery file that was written during the run, also when every
\* capture of its batch failed.
C21_GalleryExists ==
    \A data \in CompletedOutcomes : data.gallery_path \in galleries

(***************************************************************************)
(* Claims about the preview image (checked under SpecBatch)                *)
(***************************************************************************)

\* the tasks whose destination is the file returned as the preview
WritersOfBase == { t \in TaskIds : tasks[t].path = base_path }

\* C22: base.png, returned as the preview path, is the destination of the base
\* capture only: no input URL of the batch is assigned base.png, also an input
\* URL whose path sanitizes to "base".
C22_BaseOnlyByBaseCapture ==
    Scheduled => WritersOfBase = { 1 }

(***************************************************************************)
(* Claims about the readers of operator input (checked under Spec)         *)
(***************************************************************************)

\* C23: at most one reader waits for operator input at any time: while a prompt
\* is open (a gating prompt or the final confirmation) no reader thread of an
\* earlier timed-out gating prompt is still waiting, so the line typed for the
\* open prompt is received by it.
C23_OneReader ==
    PromptOpen => readers = 0

====
